---- MODULE Spec2Model ----
(***************************************************************************)
(* The symbolic parametric-model framework of app/modules/base.py:         *)
(* BaseModule.subs (substitution over nested structures),                  *)
(* BaseModule.__call__ (evaluation of a stateless model), Module.fit       *)
(* (bootstrap resampling and fitting) and Module.__call__ (evaluation of   *)
(* a fitted model).                                                        *)
(*                                                                         *)
(* Python values are tagged records.  A sympy expression is a linear form  *)
(* c + SUM co[s]*s over the symbols of the model, which is the canonical   *)
(* form sympy's automatic simplification gives to such expressions.        *)
(***************************************************************************)
EXTENDS Integers, Sequences, FiniteSets, TLC

VARIABLES
    param_by_symbol,   \* Module.param_by_symbol: None or the Parameter Binding
    call,              \* the call being made and its arguments, None when idle
    ret,               \* what the call returned or raised
    log,               \* the calls the handler made, in order
    sampled_index,     \* sampled_index of the fit call, None when none was drawn
    fit_received,      \* the arguments _fit was invoked with
    fit_returned,      \* what _fit returned or raised, None when it was not invoked
    members,           \* the Bootstrap Ensemble: the list of its members' bindings,
                       \* None before its fit
    member_fits        \* what each member's fit did in the ensemble's fit call

vars == <<param_by_symbol, call, ret, log, sampled_index, fit_received, fit_returned,
          members, member_fits>>

(***************************************************************************)
(* Bounds of the model.                                                    *)
(***************************************************************************)
MaxLen == 2        \* longest array handed to fit
MaxDepth == 2      \* deepest nesting of an output structure
MaxRuns == 2       \* most members of a Bootstrap Ensemble

(***************************************************************************)
(* Python values.                                                          *)
(***************************************************************************)
None == [tag |-> "None"]

Raw(n) == [tag |-> "raw", n |-> n]

NdArray(data) == [tag |-> "ndarray", data |-> data]

List(items) == [tag |-> "list", items |-> items]

\* A dict is its items in insertion order; the keys of one dict are distinct.
Dict(items) == [tag |-> "dict", items |-> items]

Item(key, val) == [key |-> key, val |-> val]

\* The symbols a model declares as attributes, in sympy's default sort order.
SymOrder == <<"p", "x">>

Symbols == {SymOrder[i] : i \in 1..Len(SymOrder)}

\* Attributes of a Module instance that are not symbols (methods).
OtherAttrs == {"subs"}

Symbol(name) == [kind |-> "Symbol", name |-> name]

Method(name) == [kind |-> "method", name |-> name]

Expr(c, co) == [tag |-> "expr", c |-> c, co |-> co]

Zero == [s \in Symbols |-> 0]

Num(n) == Expr(n, Zero)

Sym(name) == Expr(0, [s \in Symbols |-> IF s = name THEN 1 ELSE 0])

Ok(v) == [kind |-> "ok", val |-> v]

Raise(e) == [kind |-> "raise", err |-> e]

(***************************************************************************)
(* The exceptions the code raises, under the names of the error kinds.     *)
(***************************************************************************)
UnsupportedStructure == "NotImplementedError"

UnknownInput == "AttributeError"

NotFitted == "RuntimeError: Module has not been fitted"

InconsistentLength == "ValueError: All arguments must have the same length"

NoFittingData == "ValueError: At least one argument must be provided"

(***************************************************************************)
(* sympy: Basic.subs(dict).  Every key is sympified strictly (a key that   *)
(* is not a sympy object raises SympifyError), every new value is          *)
(* sympified (a Python number becomes a sympy number), the pairs are       *)
(* sorted by the default sort key and applied one after the other.         *)
(***************************************************************************)
Sympify(v) == IF v.tag = "raw" THEN Num(v.n) ELSE v

SubsOne(e, s, new) ==
    Expr(e.c + e.co[s] * new.c,
         [t \in Symbols |-> (IF t = s THEN 0 ELSE e.co[t]) + e.co[s] * new.co[t]])

RECURSIVE SubsSeq(_, _, _)
SubsSeq(e, b, i) ==
    IF i > Len(SymOrder) THEN e
    ELSE IF Symbol(SymOrder[i]) \in DOMAIN b
         THEN SubsSeq(SubsOne(e, SymOrder[i], Sympify(b[Symbol(SymOrder[i])])), b, i + 1)
         ELSE SubsSeq(e, b, i + 1)

ExprSubs(e, b) ==
    IF \E k \in DOMAIN b : k.kind # "Symbol"
    THEN Raise("SympifyError")
    ELSE Ok(SubsSeq(e, b, 1))

(***************************************************************************)
(* BaseModule.subs: dispatch on the type of the value.                     *)
(***************************************************************************)
\* The first exception a comprehension over results rs raises, if any.
FirstRaise(rs) ==
    LET bad == {i \in 1..Len(rs) : rs[i].kind = "raise"}
    IN  IF bad = {} THEN None
        ELSE rs[CHOOSE i \in bad : \A j \in bad : i <= j]

\* Mutant: the dict branch copies the values without substituting into them.
RECURSIVE subs_ShallowDict(_, _)
subs_ShallowDict(value, b) ==
    IF value.tag = "expr" THEN ExprSubs(value, b)
    ELSE IF value.tag = "list" THEN
        LET rs == [i \in 1..Len(value.items) |-> subs_ShallowDict(value.items[i], b)]
        IN  IF FirstRaise(rs) # None THEN FirstRaise(rs)
            ELSE Ok(List([i \in 1..Len(rs) |-> rs[i].val]))
    ELSE IF value.tag = "dict" THEN Ok(value)
    ELSE Raise(UnsupportedStructure)

\* Mutant: a value of any other type is returned as it is.
RECURSIVE subs_PassThrough(_, _)
subs_PassThrough(value, b) ==
    IF value.tag = "expr" THEN ExprSubs(value, b)
    ELSE IF value.tag = "list" THEN
        LET rs == [i \in 1..Len(value.items) |-> subs_PassThrough(value.items[i], b)]
        IN  IF FirstRaise(rs) # None THEN FirstRaise(rs)
            ELSE Ok(List([i \in 1..Len(rs) |-> rs[i].val]))
    ELSE IF value.tag = "dict" THEN
        LET rs == [i \in 1..Len(value.items) |-> subs_PassThrough(value.items[i].val, b)]
        IN  IF FirstRaise(rs) # None THEN FirstRaise(rs)
            ELSE Ok(Dict([i \in 1..Len(rs) |-> Item(value.items[i].key, rs[i].val)]))
    ELSE Ok(value)

\* Mutant: an expression with no symbol left is returned as a Python number.
RECURSIVE subs_Floats(_, _)
subs_Floats(value, b) ==
    IF value.tag = "expr" THEN
        LET r == ExprSubs(value, b)
        IN  IF r.kind = "ok" /\ r.val.co = Zero THEN Ok(Raw(r.val.c)) ELSE r
    ELSE IF value.tag = "list" THEN
        LET rs == [i \in 1..Len(value.items) |-> subs_Floats(value.items[i], b)]
        IN  IF FirstRaise(rs) # None THEN FirstRaise(rs)
            ELSE Ok(List([i \in 1..Len(rs) |-> rs[i].val]))
    ELSE IF value.tag = "dict" THEN
        LET rs == [i \in 1..Len(value.items) |-> subs_Floats(value.items[i].val, b)]
        IN  IF FirstRaise(rs) # None THEN FirstRaise(rs)
            ELSE Ok(Dict([i \in 1..Len(rs) |-> Item(value.items[i].key, rs[i].val)]))
    ELSE Raise(UnsupportedStructure)

RECURSIVE subs(_, _)
subs(value, b) ==
    IF value.tag = "expr" THEN ExprSubs(value, b)
    ELSE IF value.tag = "list" THEN
        LET rs == [i \in 1..Len(value.items) |-> subs(value.items[i], b)]
        IN  IF FirstRaise(rs) # None THEN FirstRaise(rs)
            ELSE Ok(List([i \in 1..Len(rs) |-> rs[i].val]))
    ELSE IF value.tag = "dict" THEN
        LET rs == [i \in 1..Len(value.items) |-> subs(value.items[i].val, b)]
        IN  IF FirstRaise(rs) # None THEN FirstRaise(rs)
            ELSE Ok(Dict([i \in 1..Len(rs) |-> Item(value.items[i].key, rs[i].val)]))
    ELSE Raise(UnsupportedStructure)

(***************************************************************************)
(* The model under evaluation: its declared output and its attributes.     *)
(***************************************************************************)
\* output(): 1 + p + 2*x
ModelOutput == Expr(1, [s \in Symbols |-> IF s = "p" THEN 1 ELSE 2])

\* getattr(self, k)
Getattr(k) ==
    IF k \in Symbols THEN Ok(Symbol(k))
    ELSE IF k \in OtherAttrs THEN Ok(Method(k))
    ELSE Raise(UnknownInput)

\* {getattr(self, k): v for k, v in inputs.items()}
InputBySymbol(inputs) ==
    IF \E k \in DOMAIN inputs : Getattr(k).kind = "raise"
    THEN Raise(UnknownInput)
    ELSE Ok([o \in {Getattr(k).val : k \in DOMAIN inputs} |->
                inputs[CHOOSE k \in DOMAIN inputs : Getattr(k).val = o]])

\* a | b on dicts: the right operand wins on a common key
DictUnion(a, b) ==
    [k \in DOMAIN a \cup DOMAIN b |-> IF k \in DOMAIN b THEN b[k] ELSE a[k]]

Result(r, l) == [ret |-> r, log |-> l]

\* BaseModule.__call__
BaseCall(output, inputs) ==
    LET l1  == IF output = None THEN <<"output">> ELSE <<>>
        out == IF output = None THEN ModelOutput ELSE output
        ibs == InputBySymbol(inputs)
    IN  IF ibs.kind = "raise" THEN Result(ibs, l1 \o <<"getattr">>)
        ELSE Result(subs(out, ibs.val), l1 \o <<"getattr", "subs">>)

\* Module.__call__ once the binding is known to exist; params is its dict.
FittedCall(params, output, inputs) ==
    LET l1  == IF output = None THEN <<"output">> ELSE <<>>
        out == IF output = None THEN ModelOutput ELSE output
        ibs == InputBySymbol(inputs)
    IN  IF ibs.kind = "raise" THEN Result(ibs, l1 \o <<"getattr">>)
        ELSE Result(subs(out, DictUnion(ibs.val, params)), l1 \o <<"getattr", "subs">>)

\* Mutant: the check for a missing binding is gone, and a missing binding
\* counts as an empty one.
ModuleCall_Unchecked(pbs, output, inputs) ==
    FittedCall(IF pbs = None THEN <<>> ELSE pbs.map, output, inputs)

\* Mutant: the names are resolved and the substitution is made first, and the
\* binding is looked for afterwards.
ModuleCall_ChecksLast(pbs, output, inputs) ==
    LET r == FittedCall(IF pbs = None THEN <<>> ELSE pbs.map, output, inputs)
    IN  IF r.ret.kind = "raise" THEN r
        ELSE IF pbs = None THEN Result(Raise(NotFitted), r.log)
        ELSE r

\* Module.__call__
ModuleCall(pbs, output, inputs) ==
    IF pbs = None THEN Result(Raise(NotFitted), <<>>)
    ELSE FittedCall(pbs.map, output, inputs)

(***************************************************************************)
(* Module.fit.                                                             *)
(***************************************************************************)
\* A Parameter Binding: a dict from Symbol to number.
Binding(map) == [tag |-> "binding", map |-> map]

IsArray(arg) == arg.tag = "ndarray"

\* itertools.chain(args, kwargs.values())
Chain(args, kwargs) == args \o [i \in 1..Len(kwargs) |-> kwargs[i].val]

\* The loop over the arguments.  choice is what np.random.choice returns
\* when it is called, for the first array met.
RECURSIVE ScanArgs(_, _, _, _)
ScanArgs(chain, index, choice, l) ==
    IF chain = <<>> THEN [raised |-> FALSE, sampled_index |-> index, log |-> l]
    ELSE IF ~IsArray(Head(chain)) THEN ScanArgs(Tail(chain), index, choice, l)
    ELSE
    LET drawn == index = None
        si    == IF drawn THEN NdArray(choice) ELSE index
        l2    == IF drawn THEN l \o <<"choice">> ELSE l
    IN  IF Len(Head(chain).data) # Len(si.data)
        THEN [raised |-> TRUE, sampled_index |-> si, log |-> l2]
        ELSE ScanArgs(Tail(chain), si, choice, l2)

\* arg[sampled_index] if isinstance(arg, np.ndarray) else arg
Gather(arg, si) ==
    IF IsArray(arg)
    THEN NdArray([i \in 1..Len(si.data) |-> arg.data[si.data[i] + 1]])
    ELSE arg

\* Mutant: only the arrays are kept.
GatherArgs_ArraysOnly(args, si) ==
    LET arrs == SelectSeq(args, IsArray)
    IN  [i \in 1..Len(arrs) |-> Gather(arrs[i], si)]

GatherArgs(args, si) == [i \in 1..Len(args) |-> Gather(args[i], si)]

\* Mutant: the keyword arguments are not resampled.
GatherKwargs_Unsampled(kwargs, si) == kwargs

GatherKwargs(kwargs, si) ==
    [i \in 1..Len(kwargs) |-> Item(kwargs[i].key, Gather(kwargs[i].val, si))]

FitResult(pbs, r, l, si, recv) ==
    [param |-> pbs, ret |-> r, log |-> l, sampled |-> si, fit_received |-> recv]

\* Mutant: the returned binding is merged into the one the model has.
CallFit_Merges(pbs, args, kwargs, fitted, l, si) ==
    IF fitted.kind = "raise"
    THEN FitResult(pbs, fitted, l \o <<"_fit">>, si, [args |-> args, kwargs |-> kwargs])
    ELSE FitResult(IF pbs = None THEN fitted.val
                   ELSE Binding(DictUnion(pbs.map, fitted.val.map)),
                   Ok(None), l \o <<"_fit">>, si, [args |-> args, kwargs |-> kwargs])

\* Mutant: the binding is cleared before _fit is called.
CallFit_ClearsFirst(pbs, args, kwargs, fitted, l, si) ==
    IF fitted.kind = "raise"
    THEN FitResult(None, fitted, l \o <<"_fit">>, si, [args |-> args, kwargs |-> kwargs])
    ELSE FitResult(fitted.val, Ok(None), l \o <<"_fit">>, si,
                   [args |-> args, kwargs |-> kwargs])

\* self.param_by_symbol = self._fit(*args, **kwargs); fitted is what the
\* model-specific _fit does with them: it returns a binding or raises.
CallFit(pbs, args, kwargs, fitted, l, si) ==
    IF fitted.kind = "raise"
    THEN FitResult(pbs, fitted, l \o <<"_fit">>, si, [args |-> args, kwargs |-> kwargs])
    ELSE FitResult(fitted.val, Ok(None), l \o <<"_fit">>, si,
                   [args |-> args, kwargs |-> kwargs])

\* Mutant: the check that an index was drawn is gone.
ModuleFit_NoDataCheck(pbs, bootstrap, args, kwargs, choice, fitted) ==
    IF ~bootstrap THEN CallFit(pbs, args, kwargs, fitted, <<>>, None)
    ELSE
    LET scan == ScanArgs(Chain(args, kwargs), None, choice, <<>>)
        si   == scan.sampled_index
    IN  IF scan.raised
        THEN FitResult(pbs, Raise(InconsistentLength), scan.log, si, None)
        ELSE CallFit(pbs, GatherArgs(args, si), GatherKwargs(kwargs, si), fitted,
                     scan.log \o <<"gather">>, si)

\* Mutant: the bootstrap flag is not looked at.
ModuleFit_AlwaysBootstrap(pbs, bootstrap, args, kwargs, choice, fitted) ==
    LET scan == ScanArgs(Chain(args, kwargs), None, choice, <<>>)
        si   == scan.sampled_index
    IN  IF scan.raised
        THEN FitResult(pbs, Raise(InconsistentLength), scan.log, si, None)
        ELSE IF si = None
        THEN FitResult(pbs, Raise(NoFittingData), scan.log, si, None)
        ELSE CallFit(pbs, GatherArgs(args, si), GatherKwargs(kwargs, si), fitted,
                     scan.log \o <<"gather">>, si)

ModuleFit(pbs, bootstrap, args, kwargs, choice, fitted) ==
    IF ~bootstrap THEN CallFit(pbs, args, kwargs, fitted, <<>>, None)
    ELSE
    LET scan == ScanArgs(Chain(args, kwargs), None, choice, <<>>)
        si   == scan.sampled_index
    IN  IF scan.raised
        THEN FitResult(pbs, Raise(InconsistentLength), scan.log, si, None)
        ELSE IF si = None
        THEN FitResult(pbs, Raise(NoFittingData), scan.log, si, None)
        ELSE CallFit(pbs, GatherArgs(args, si), GatherKwargs(kwargs, si), fitted,
                     scan.log \o <<"gather">>, si)

(***************************************************************************)
(* The inputs the callers draw from.                                       *)
(***************************************************************************)
\* Arrays of every length up to MaxLen; rows are told apart by their values.
Arrays(b) == {NdArray([i \in 1..n |-> b + i]) : n \in 0..MaxLen}

Scalars == {Raw(7)}

PosVals == Arrays(10) \cup Scalars

KwVals == Arrays(20) \cup Scalars

KwNames == {"age", "survival_rate"}

PosArgs == {<<>>} \cup {<<a>> : a \in PosVals} \cup (PosVals \X PosVals)

KwArgs ==
    {<<>>} \cup {<<Item(k, a)>> : k \in KwNames, a \in KwVals}
    \cup {<<Item(k[1], a[1]), Item(k[2], a[2])>> :
            k \in {q \in KwNames \X KwNames : q[1] # q[2]}, a \in KwVals \X KwVals}

\* np.random.choice(n, size=n, replace=True)
Choice(n) == [1..n -> 0..(n - 1)]

\* What np.random.choice can return in a fit call with these arguments.
Choices(chain) ==
    LET arrs == {i \in 1..Len(chain) : IsArray(chain[i])}
    IN  IF arrs = {} THEN {<<>>}
        ELSE Choice(Len(chain[CHOOSE i \in arrs : \A j \in arrs : i <= j].data))

\* What a model-specific _fit can do.
FitOutcomes ==
    {Raise("FitError"),
     Ok(Binding([k \in {Symbol("p")} |-> Raw(2)])),
     Ok(Binding([k \in {Symbol("p"), Symbol("x")} |-> IF k.name = "p" THEN Raw(3) ELSE Raw(2)]))}

Leaves == {ModelOutput, Raw(3)}

RECURSIVE Structs(_)
Structs(d) ==
    IF d = 0 THEN Leaves
    ELSE LET S == Structs(d - 1)
         IN  Leaves \cup {List(<<>>), Dict(<<>>)}
             \cup {List(<<v>>) : v \in S}
             \cup {List(<<l, v>>) : l \in Leaves, v \in S}
             \cup {Dict(<<Item("a", v)>>) : v \in S}
             \cup {Dict(<<Item("a", v), Item("b", l)>>) : v \in S, l \in Leaves}

Outputs == {None} \cup Structs(MaxDepth)

InputNames == Symbols \cup OtherAttrs \cup {"zz"}

InputVals == {Raw(5), Sym("p")}

Inputs == UNION {[D -> InputVals] : D \in SUBSET InputNames}

(***************************************************************************)
(* The state machine: one fittable model, one stateless model, and their   *)
(* callers.                                                                *)
(***************************************************************************)
Init ==
    /\ param_by_symbol = None
    /\ call = None
    /\ ret = None
    /\ log = <<>>
    /\ sampled_index = None
    /\ fit_received = None
    /\ fit_returned = None
    /\ members = None
    /\ member_fits = <<>>

Fit(bootstrap, args, kwargs, choice, fitted) ==
    /\ LET r == ModuleFit(param_by_symbol, bootstrap, args, kwargs, choice, fitted)
       IN  /\ param_by_symbol' = r.param
           /\ ret' = r.ret
           /\ log' = r.log
           /\ sampled_index' = r.sampled
           /\ fit_received' = r.fit_received
           /\ fit_returned' = IF r.fit_received = None THEN None ELSE fitted
    /\ UNCHANGED <<members, member_fits>>
    /\ call' = [op |-> "fit", bootstrap |-> bootstrap, args |-> args, kwargs |-> kwargs,
                before |-> param_by_symbol]

\* Mutant: the evaluation keeps the merged bindings as the model's binding.
Evaluate_KeepsInputs(output, inputs) ==
    /\ LET r == ModuleCall(param_by_symbol, output, inputs)
       IN  /\ ret' = r.ret
           /\ log' = r.log
    /\ call' = [op |-> "evaluate", output |-> output, inputs |-> inputs]
    /\ param_by_symbol' =
         IF param_by_symbol # None /\ InputBySymbol(inputs).kind = "ok"
         THEN Binding(DictUnion(param_by_symbol.map, InputBySymbol(inputs).val))
         ELSE param_by_symbol
    /\ UNCHANGED <<sampled_index, fit_received, fit_returned, members, member_fits>>

Evaluate(output, inputs) ==
    /\ LET r == ModuleCall(param_by_symbol, output, inputs)
       IN  /\ ret' = r.ret
           /\ log' = r.log
    /\ call' = [op |-> "evaluate", output |-> output, inputs |-> inputs]
    /\ UNCHANGED <<param_by_symbol, sampled_index, fit_received, fit_returned,
                   members, member_fits>>

BaseEvaluate(output, inputs) ==
    /\ LET r == BaseCall(output, inputs)
       IN  /\ ret' = r.ret
           /\ log' = r.log
    /\ call' = [op |-> "base_evaluate", output |-> output, inputs |-> inputs]
    /\ UNCHANGED <<param_by_symbol, sampled_index, fit_received, fit_returned,
                   members, member_fits>>

\* The caller takes the result and goes on.
Return ==
    /\ call # None
    /\ call' = None
    /\ ret' = None
    /\ log' = <<>>
    /\ sampled_index' = None
    /\ fit_received' = None
    /\ fit_returned' = None
    /\ member_fits' = <<>>
    /\ UNCHANGED <<param_by_symbol, members>>

DoFit ==
    /\ call = None
    /\ \E bootstrap \in BOOLEAN, args \in PosArgs, kwargs \in KwArgs, fitted \in FitOutcomes :
         \E choice \in Choices(Chain(args, kwargs)) :
             Fit(bootstrap, args, kwargs, choice, fitted)

DoEvaluate == call = None /\ \E output \in Outputs, inputs \in Inputs : Evaluate(output, inputs)

DoBaseEvaluate == call = None /\ \E output \in Outputs, inputs \in Inputs : BaseEvaluate(output, inputs)

Next == DoFit \/ DoEvaluate \/ DoBaseEvaluate \/ Return

Spec == Init /\ [][Next]_vars

(***************************************************************************)
(* The Bootstrap Ensemble (BootstrapModule), as its specification and its  *)
(* callers in main.py give it: fit makes runs fresh members and fits each  *)
(* with bootstrap=True on the same arguments; a call evaluates every       *)
(* member on the same output and inputs and returns the results in the     *)
(* members' order.                                                         *)
(***************************************************************************)
\* The fits of members i, i+1, ... up to runs, stopping at the first that raises.
RECURSIVE MemberFits(_, _, _, _, _, _)
MemberFits(i, runs, args, kwargs, choices, fitteds) ==
    IF i > runs THEN <<>>
    ELSE LET r == ModuleFit(None, TRUE, args, kwargs, choices[i], fitteds[i])
         IN  IF r.ret.kind = "raise" THEN <<r>>
             ELSE <<r>> \o MemberFits(i + 1, runs, args, kwargs, choices, fitteds)

\* BootstrapModule.fit: the members it leaves, what it returns, the fits made.
BootstrapFit(old, runs, args, kwargs, choices, fitteds) ==
    LET fits == MemberFits(1, runs, args, kwargs, choices, fitteds)
        last == fits[Len(fits)]
    IN  IF last.ret.kind = "raise"
        THEN [members |-> old, ret |-> last.ret, fits |-> fits]
        ELSE [members |-> List([i \in 1..runs |-> fits[i].param]), ret |-> Ok(None),
              fits |-> fits]

\* BootstrapModule.__call__
BootstrapCall(ms, output, inputs) ==
    IF ms = None THEN Raise(NotFitted)
    ELSE LET rs == [i \in 1..Len(ms.items) |-> ModuleCall(ms.items[i], output, inputs).ret]
         IN  IF FirstRaise(rs) # None THEN FirstRaise(rs)
             ELSE Ok(List([i \in 1..Len(rs) |-> rs[i].val]))

Runs == 1..MaxRuns

\* The data of an ensemble fit: two named arrays, as in main.py, of one
\* length or with the second one row short.
EnsembleKwArgs ==
    UNION {{<<Item("age", NdArray([i \in 1..n |-> 10 + i])),
              Item("survival_rate", NdArray([i \in 1..m |-> 20 + i]))>> : m \in {n - 1, n}} :
           n \in 1..MaxLen}

\* The draws of np.random.choice the members see: the rows in their order,
\* or one row drawn every time.
MemberChoices(n) ==
    {c \in Choice(n) : (\A i \in 1..n : c[i] = i - 1) \/ (\A i \in 1..n : c[i] = c[1])}

EnsembleOutputs == {None} \cup Structs(1)

EnsembleFit(runs, kwargs, choices, fitteds) ==
    /\ LET r == BootstrapFit(members, runs, <<>>, kwargs, choices, fitteds)
       IN  /\ members' = r.members
           /\ ret' = r.ret
           /\ member_fits' = r.fits
    /\ call' = [op |-> "ensemble_fit", runs |-> runs, kwargs |-> kwargs]
    /\ UNCHANGED <<param_by_symbol, log, sampled_index, fit_received, fit_returned>>

EnsembleEvaluate(output, inputs) ==
    /\ ret' = BootstrapCall(members, output, inputs)
    /\ call' = [op |-> "ensemble_evaluate", output |-> output, inputs |-> inputs]
    /\ UNCHANGED <<param_by_symbol, log, sampled_index, fit_received, fit_returned,
                   members, member_fits>>

\* An ensemble is fitted once, as in every experiment of main.py.
DoEnsembleFit ==
    /\ call = None
    /\ members = None
    /\ \E runs \in Runs, kwargs \in EnsembleKwArgs :
         \E choices \in [1..runs -> MemberChoices(Len(kwargs[1].val.data))],
            fitteds \in [1..runs -> FitOutcomes] :
             EnsembleFit(runs, kwargs, choices, fitteds)

DoEnsembleEvaluate ==
    /\ call = None
    /\ \E output \in EnsembleOutputs, inputs \in Inputs : EnsembleEvaluate(output, inputs)

NextEnsemble == DoEnsembleFit \/ DoEnsembleEvaluate \/ Return

SpecEnsemble == Init /\ [][NextEnsemble]_vars

(***************************************************************************)
(* Properties.                                                             *)
(***************************************************************************)
IsCall(op) == call # None /\ call.op = op

IsEvaluation == IsCall("evaluate") \/ IsCall("base_evaluate")

Did(e) == \E i \in 1..Len(log) : log[i] = e

Count(e) == Len(SelectSeq(log, LAMBDA x : x = e))

\* The structure an evaluation substitutes into.
OutputOf(c) == IF c.output = None THEN ModelOutput ELSE c.output

\* The bindings an evaluation that reached subs handed to it.
BindingsOf(c) ==
    IF c.op = "evaluate"
    THEN DictUnion(InputBySymbol(c.inputs).val, param_by_symbol.map)
    ELSE InputBySymbol(c.inputs).val

HasArray(c) ==
    \/ \E i \in 1..Len(c.args) : IsArray(c.args[i])
    \/ \E i \in 1..Len(c.kwargs) : IsArray(c.kwargs[i].val)

ArrayLens(c) ==
    {Len(c.args[i].data) : i \in {j \in 1..Len(c.args) : IsArray(c.args[j])}}
    \cup {Len(c.kwargs[i].val.data) : i \in {j \in 1..Len(c.kwargs) : IsArray(c.kwargs[j].val)}}

\* C1: evaluating a fittable model that has no Parameter Binding raises
\* NotFitted, whatever the inputs and the output argument are; nothing is
\* returned.
C1_UnfittedRaisesNotFitted ==
    (IsCall("evaluate") /\ param_by_symbol = None) => ret = Raise(NotFitted)

C1_Witness ==
    /\ IsCall("evaluate")
    /\ param_by_symbol = None
    /\ call.output # None
    /\ DOMAIN call.inputs = {"x"}
    /\ ret = Raise(NotFitted)

\* C2 (as claimed): when an input names a symbol that the Parameter Binding
\* also binds, the evaluation returns the substitution in which the input's
\* value is used for that symbol.
C2_InputsTakePrecedence ==
    (/\ IsCall("evaluate")
     /\ ret.kind = "ok"
     /\ \E k \in DOMAIN call.inputs : Symbol(k) \in DOMAIN param_by_symbol.map)
    => ret = subs(OutputOf(call),
                  DictUnion(param_by_symbol.map, InputBySymbol(call.inputs).val))

\* C3: a fit call that raises leaves the Parameter Binding as it was before
\* the call.
C3_FailedFitKeepsBinding ==
    (IsCall("fit") /\ ret.kind = "raise") => param_by_symbol = call.before

C3_Witness ==
    /\ IsCall("fit")
    /\ ret = Raise("FitError")
    /\ call.before # None
    /\ param_by_symbol = call.before

\* C4 (as claimed): a bootstrap fit that raises InconsistentLength has drawn
\* no resample index, resampled no argument and not invoked _fit.
C4_FailsBeforeSampling ==
    (IsCall("fit") /\ ret = Raise(InconsistentLength))
    => (sampled_index = None /\ log = <<>> /\ fit_received = None)

\* C5: a bootstrap fit with no array among its positional and keyword
\* arguments raises NoFittingData, and _fit is not invoked.
C5_NoArrayRaisesNoFittingData ==
    (IsCall("fit") /\ call.bootstrap /\ ~HasArray(call))
    => (ret = Raise(NoFittingData) /\ ~Did("_fit") /\ fit_received = None)

C5_Witness ==
    /\ IsCall("fit")
    /\ call.bootstrap
    /\ Len(call.args) = 1
    /\ Len(call.kwargs) = 1
    /\ ~HasArray(call)
    /\ ret = Raise(NoFittingData)

\* C6: in a bootstrap fit that reaches _fit, one index of the common array
\* length is drawn, and every array argument, positional or keyword, reaches
\* _fit as its values gathered at that one index.
C6_OneSharedIndex ==
    (IsCall("fit") /\ call.bootstrap /\ fit_received # None) =>
    /\ Count("choice") = 1
    /\ sampled_index # None
    /\ LET idx == sampled_index.data
           L   == Len(idx)
       IN  /\ ArrayLens(call) = {L}
           /\ \A j \in 1..L : idx[j] \in 0..(L - 1)
           /\ \A i \in 1..Len(call.args) :
                IsArray(call.args[i]) =>
                    fit_received.args[i] =
                        NdArray([j \in 1..L |-> call.args[i].data[idx[j] + 1]])
           /\ \A i \in 1..Len(call.kwargs) :
                IsArray(call.kwargs[i].val) =>
                    /\ fit_received.kwargs[i].key = call.kwargs[i].key
                    /\ fit_received.kwargs[i].val =
                          NdArray([j \in 1..L |-> call.kwargs[i].val.data[idx[j] + 1]])

C6_Witness ==
    /\ IsCall("fit")
    /\ call.bootstrap
    /\ fit_received # None
    /\ sampled_index = NdArray(<<1, 1>>)
    /\ call.args = <<NdArray(<<11, 12>>)>>
    /\ Len(call.kwargs) = 1
    /\ fit_received.args = <<NdArray(<<12, 12>>)>>
    /\ fit_received.kwargs[1].val = NdArray(<<22, 22>>)

\* C7: in a bootstrap fit, _fit receives as many positional arguments as the
\* caller gave, in the same order, under the same keyword names, and every
\* argument that is not an array unchanged; arrays stay arrays.
C7_NonArraysUnchanged ==
    (IsCall("fit") /\ call.bootstrap /\ fit_received # None) =>
    /\ Len(fit_received.args) = Len(call.args)
    /\ \A i \in 1..Len(call.args) :
         IF IsArray(call.args[i]) THEN IsArray(fit_received.args[i])
         ELSE fit_received.args[i] = call.args[i]
    /\ Len(fit_received.kwargs) = Len(call.kwargs)
    /\ \A i \in 1..Len(call.kwargs) :
         /\ fit_received.kwargs[i].key = call.kwargs[i].key
         /\ IF IsArray(call.kwargs[i].val) THEN IsArray(fit_received.kwargs[i].val)
            ELSE fit_received.kwargs[i].val = call.kwargs[i].val

C7_Witness ==
    /\ IsCall("fit")
    /\ call.bootstrap
    /\ call.args = <<Raw(7), NdArray(<<11, 12>>)>>
    /\ Len(call.kwargs) = 2
    /\ call.kwargs[1].val = Raw(7)
    /\ sampled_index = NdArray(<<1, 0>>)
    /\ fit_received.args = <<Raw(7), NdArray(<<12, 11>>)>>
    /\ fit_received.kwargs[1] = call.kwargs[1]

\* The result r has the shape of the value v, and each of its parts is the
\* substitution of the part of v at the same place.
RECURSIVE ShapePreserved(_, _, _)
ShapePreserved(v, r, b) ==
    IF v.tag = "list" THEN
        /\ r.tag = "list"
        /\ Len(r.items) = Len(v.items)
        /\ \A i \in 1..Len(v.items) :
             /\ Ok(r.items[i]) = subs(v.items[i], b)
             /\ ShapePreserved(v.items[i], r.items[i], b)
    ELSE IF v.tag = "dict" THEN
        /\ r.tag = "dict"
        /\ Len(r.items) = Len(v.items)
        /\ \A i \in 1..Len(v.items) :
             /\ r.items[i].key = v.items[i].key
             /\ Ok(r.items[i].val) = subs(v.items[i].val, b)
             /\ ShapePreserved(v.items[i].val, r.items[i].val, b)
    ELSE r.tag = "expr"

\* C8: an evaluation that returns, returns a structure of the shape of the
\* output structure at every level: a list of n values gives a list of n
\* values, the i-th the substitution of the i-th, and a dict gives a dict of
\* the same keys, each value the substitution of the value at that key.
C8_ShapePreserved ==
    (IsEvaluation /\ ret.kind = "ok")
    => ShapePreserved(OutputOf(call), ret.val, BindingsOf(call))

C8_Witness ==
    /\ IsCall("base_evaluate")
    /\ call.output = List(<<ModelOutput,
                            Dict(<<Item("a", ModelOutput), Item("b", ModelOutput)>>)>>)
    /\ DOMAIN call.inputs = {"x"}
    /\ call.inputs["x"] = Raw(5)
    /\ ret.kind = "ok"
    /\ ret.val.items[2].items[2].val = Expr(11, [s \in Symbols |-> IF s = "p" THEN 1 ELSE 0])

\* A value subs does not take, at any depth.
RECURSIVE HasUnsupported(_)
HasUnsupported(v) ==
    IF v.tag = "expr" THEN FALSE
    ELSE IF v.tag = "list" THEN \E i \in 1..Len(v.items) : HasUnsupported(v.items[i])
    ELSE IF v.tag = "dict" THEN \E i \in 1..Len(v.items) : HasUnsupported(v.items[i].val)
    ELSE TRUE

\* C9: a substitution into a structure that holds, at any depth, a value that
\* is no expression, list or dict raises and returns nothing; with bindings
\* keyed by symbols the exception is UnsupportedStructure.
C9_UnsupportedRaises ==
    (IsEvaluation /\ Did("subs") /\ HasUnsupported(OutputOf(call))) =>
    /\ ret.kind = "raise"
    /\ (DOMAIN call.inputs \subseteq Symbols) => ret = Raise(UnsupportedStructure)

C9_Witness ==
    /\ IsCall("base_evaluate")
    /\ call.output = List(<<ModelOutput, Dict(<<Item("a", Raw(3))>>)>>)
    /\ DOMAIN call.inputs = {"x"}
    /\ Did("subs")
    /\ ret = Raise(UnsupportedStructure)

\* C10 (as claimed): an evaluation that resolves its input names, one of
\* which is no declared symbol, raises UnknownInput.
C10_UnknownInputRaises ==
    (IsEvaluation /\ Did("getattr") /\ ~(DOMAIN call.inputs \subseteq Symbols))
    => ret = Raise(UnknownInput)

\* C11: an evaluation, whether it returns or raises, leaves the Parameter
\* Binding as it was, and the binding changes in fit calls only; the result
\* of an evaluation being a function of the binding, the output and the
\* inputs, equal evaluations between two fits give equal results.
C11_EvaluationKeepsBinding ==
    [][/\ IsEvaluation' => param_by_symbol' = param_by_symbol
       /\ param_by_symbol' # param_by_symbol => IsCall("fit")']_vars

C11_Witness ==
    /\ IsCall("evaluate")
    /\ param_by_symbol # None
    /\ DOMAIN call.inputs = {"p", "x"}
    /\ ret.kind = "ok"

\* C12: an ensemble fitted with runs = N holds N members, each fitted by a
\* bootstrap fit of its own (its own index, the data gathered at it, its own
\* binding), and an evaluation of the ensemble that returns, returns N
\* results, the i-th the evaluation of the i-th member.
C12_EnsembleResultsInOrder ==
    /\ (IsCall("ensemble_fit") /\ ret.kind = "ok") =>
         /\ members # None
         /\ Len(members.items) = call.runs
         /\ Len(member_fits) = call.runs
         /\ \A i \in 1..call.runs :
              LET f   == member_fits[i]
                  idx == f.sampled.data
              IN  /\ members.items[i] = f.param
                  /\ SelectSeq(f.log, LAMBDA x : x = "choice") = <<"choice">>
                  /\ \A k \in 1..Len(call.kwargs) :
                       f.fit_received.kwargs[k] =
                           Item(call.kwargs[k].key,
                                NdArray([j \in 1..Len(idx) |->
                                            call.kwargs[k].val.data[idx[j] + 1]]))
    /\ (IsCall("ensemble_evaluate") /\ ret.kind = "ok") =>
         /\ ret.val.tag = "list"
         /\ Len(ret.val.items) = Len(members.items)
         /\ \A i \in 1..Len(members.items) :
              Ok(ret.val.items[i]) = ModuleCall(members.items[i], call.output, call.inputs).ret

C12_Witness ==
    /\ IsCall("ensemble_evaluate")
    /\ members # None
    /\ Len(members.items) = 2
    /\ call.output = None
    /\ DOMAIN call.inputs = {"x"}
    /\ call.inputs["x"] = Raw(5)
    /\ ret = Ok(List(<<Num(13), Num(8)>>))

\* C13: after a fit call that returns, the Parameter Binding is the mapping
\* _fit returned in that call, whatever binding the model had before: no
\* entry of the earlier binding is left that the new mapping does not hold.
C13_FitReplacesBinding ==
    (IsCall("fit") /\ ret.kind = "ok")
    => (fit_returned.kind = "ok" /\ param_by_symbol = fit_returned.val)

C13_Witness ==
    /\ IsCall("fit")
    /\ ret.kind = "ok"
    /\ call.before # None
    /\ Symbol("x") \in DOMAIN call.before.map
    /\ DOMAIN param_by_symbol.map = {Symbol("p")}
    /\ param_by_symbol.map[Symbol("p")] = Raw(2)

\* The symbols a structure holds.
RECURSIVE FreeSymbols(_)
FreeSymbols(v) ==
    IF v.tag = "expr" THEN {s \in Symbols : v.co[s] # 0}
    ELSE IF v.tag = "list" THEN UNION {FreeSymbols(v.items[i]) : i \in 1..Len(v.items)}
    ELSE IF v.tag = "dict" THEN UNION {FreeSymbols(v.items[i].val) : i \in 1..Len(v.items)}
    ELSE {}

\* The bindings b bind every symbol of v.
Covers(b, v) == \A s \in FreeSymbols(v) : Symbol(s) \in DOMAIN b

\* C14 (as claimed): when the bindings cover every free symbol of the output
\* structure, substituting them again into the result gives the result.
C14_IdempotentWhenCovered ==
    (IsEvaluation /\ ret.kind = "ok" /\ Covers(BindingsOf(call), OutputOf(call)))
    => subs(ret.val, BindingsOf(call)) = ret

\* C14 (amended): when the bindings cover every free symbol of the output
\* structure and the result of the substitution holds no symbol any more,
\* substituting the bindings again into the result gives the result.
C14_IdempotentWhenBound ==
    (/\ IsEvaluation
     /\ ret.kind = "ok"
     /\ Covers(BindingsOf(call), OutputOf(call))
     /\ FreeSymbols(ret.val) = {})
    => subs(ret.val, BindingsOf(call)) = ret

C14_Witness ==
    /\ IsCall("evaluate")
    /\ call.output = List(<<ModelOutput, Dict(<<Item("a", ModelOutput)>>)>>)
    /\ DOMAIN call.inputs = {"x"}
    /\ call.inputs["x"] = Raw(5)
    /\ ret = Ok(List(<<Num(13), Dict(<<Item("a", Num(13))>>)>>))
    /\ subs(ret.val, BindingsOf(call)) = ret

\* C15: a fit call with bootstrap false draws no index and makes no check:
\* _fit is invoked with the caller's positional and keyword arguments as
\* they are, whatever the arrays' lengths and with no array at all, and the
\* call raises only what _fit raises.
C15_NoBootstrapPassesThrough ==
    (IsCall("fit") /\ ~call.bootstrap) =>
    /\ sampled_index = None
    /\ log = <<"_fit">>
    /\ fit_received = [args |-> call.args, kwargs |-> call.kwargs]
    /\ ret.kind = "raise" => ret = fit_returned

C15_Witness ==
    /\ IsCall("fit")
    /\ ~call.bootstrap
    /\ call.args = <<NdArray(<<11>>), NdArray(<<11, 12>>)>>
    /\ Len(call.kwargs) = 1
    /\ ret.kind = "ok"
    /\ fit_received.args = call.args

\* C16: fitted is a stable state: a step taken with a Parameter Binding in
\* place, be it a fit that returns or raises or an evaluation, leaves a
\* Parameter Binding in place, and an evaluation made with a binding in place
\* does not raise NotFitted.
C16_FittedIsStable ==
    [][param_by_symbol # None =>
          /\ param_by_symbol' # None
          /\ IsEvaluation' => ret' # Raise(NotFitted)]_vars

C16_Witness ==
    /\ IsCall("fit")
    /\ call.bootstrap
    /\ call.before # None
    /\ ret = Raise(InconsistentLength)
    /\ param_by_symbol = call.before

\* C17: on a model with no Parameter Binding the evaluation raises NotFitted
\* before anything else is done: output() is not called, no input name is
\* resolved and nothing is substituted, also when an input names no symbol
\* and the output structure holds an unsupported leaf.
C17_NotFittedComesFirst ==
    (IsCall("evaluate") /\ param_by_symbol = None) =>
    /\ ret = Raise(NotFitted)
    /\ ~Did("output")
    /\ ~Did("getattr")
    /\ ~Did("subs")

C17_Witness ==
    /\ IsCall("evaluate")
    /\ param_by_symbol = None
    /\ "zz" \in DOMAIN call.inputs
    /\ call.output = List(<<ModelOutput, Dict(<<Item("a", Raw(3))>>)>>)
    /\ ret = Raise(NotFitted)
    /\ log = <<>>

====
